---- MODULE Spec2Model ----
(***************************************************************************)
(* IOT_backend relay hub: the express application state (app.js), the      *)
(* camera frame entry point and snapshot (routes/camera.js), the REST car  *)
(* control entry point (routes/car.js), the car firmware's command handler *)
(* (iot_ino/car_soket.ino), and the socket registry of the hub.            *)
(***************************************************************************)
EXTENDS Integers, Sequences, FiniteSets, TLC

\* ------------------------------------------------------------------ bounds
MaxConns == 3          \* socket peers that may ever be accepted at once
MaxCarPeers == 2       \* car peers of the command-router runs
MaxViewers == 2        \* viewer peers of the acknowledgment and fan-out runs
MaxInFlight == 1       \* messages in flight on the car socket, each way
MaxFrames == 3         \* frames posted in a run of the frame relay
MaxWindowFrames == 16  \* frames posted in a run of the throughput window
MaxFpsTicks == 3       \* clock steps in a run of the throughput window
MaxMonitorFrames == 2  \* frames posted in a run of the liveness monitor
MaxMonitorTicks == 8   \* clock steps in a run of the liveness monitor
MaxOrderFrames == 4    \* frames the camera produces in a run of the ordering
MaxHandshakePeers == 2 \* peers of the handshake runs
MaxHandshakeTicks == 10 \* clock steps in a run of the handshake
MaxCacheFrames == 2    \* frames posted in a run of the frame cache
MaxCacheTicks == 6     \* clock steps in a run of the frame cache
MaxStreamFrames == 3   \* frames the camera streams in a run of the command path
MaxCaptureFrames == 3  \* frames posted in a run of the capture route
MaxIngestFrames == 2   \* frames accepted in a run of the frame entry point
MaxIngestTicks == 2    \* clock steps in a run of the frame entry point
MaxRecoveryFrames == 2 \* frames posted in a run of the status recovery
MaxRecoveryTicks == 14 \* clock steps in a run of the status recovery
MaxSockets == 3        \* WebSocket objects of a client service alive at once

\* ------------------------------------------------------- program constants
OPEN == 1              \* WebSocket.OPEN, the readyState the routes test
CLOSING == 2
CLOSED == 3
DefaultSpeed == 200    \* req.body.speed || 200
FpsPeriod == 1000      \* setInterval(..., 1000)
MonitorPeriod == 2000  \* setInterval(..., 2000)
StaleAfter == 5000     \* timeSinceUpdate > 5000
HandshakeTimeout == 10000  \* wait for the identification message (ms)
maxReconnectAttempts == 5  \* private maxReconnectAttempts = 5
NormalClosure == 1000  \* event.code !== 1000, close(1000, 'Manual disconnect')
ClockStep == FpsPeriod  \* granularity of Date.now() in the model (ms)
MaxLate == ClockStep    \* how late a timer callback may run (ms)

Null == 0              \* null / undefined reference to a socket
NoTime == -1           \* null Date
NoFrame == 0           \* latestFrame === null
NoImage == <<>>        \* a message without an image field
CONNECTING == 0        \* no transport accepted yet for this peer

Conns == 1..MaxConns
CarPeers == {c \in Conns : c <= MaxCarPeers}
CarPeer == CHOOSE c \in Conns : \A d \in Conns : c <= d
ViewerPeers == {c \in Conns : c > CarPeer /\ c <= CarPeer + MaxViewers}
validCommands == {"forward", "backward", "left", "right", "stop"}
NoCommand == ""        \* body without a command (falsy in JavaScript)
CommandInputs == validCommands \cup {"diagonal", NoCommand}
SpeedInputs == {-1, 0, 255, 256}
NoBody == [command |-> NoCommand, hasSpeed |-> FALSE, speed |-> 0]
\* req.body of POST /car/control: a command (or none) and a speed (or none).
Bodies == [command : CommandInputs, hasSpeed : {TRUE}, speed : SpeedInputs]
            \cup [command : CommandInputs, hasSpeed : {FALSE}, speed : {0}]
\* The commands of the acknowledgment runs.
AckBodies == {b \in Bodies : b.command \in {"left", "stop", "diagonal"}
                              /\ (b.hasSpeed => b.speed = 255)}
\* The two revisions of the car route in the repository.
Variants == {"routes/car.js", "part_007"}
Surfaces == {"camera", "car", "viewer"}
CameraPeer == CarPeer
Payloads == {1, 2}      \* two distinct frame contents
HandshakePeers == {c \in Conns : c <= MaxHandshakePeers}
Sockets == 1..MaxSockets
\* The codes of a close event: normal closure, no status received (a close
\* frame without a code), abnormal closure (no close frame at all).
CloseCodes == {NormalClosure, 1005, 1006}
\* The car sketches of the repository, named by file and the line of their
\* handleCommand: the sketch that ignores acknowledgments, the sketch that
\* looks for a command key, and the sketch of the combined device.
CarSketch == "car_soket.ino:207"
Sketches == {CarSketch, "car_soket.ino:485", "iot.ino:438"}
\* The first message of a peer, by its "type": the camera's and the car's
\* identification, a JSON message without a peer kind, and text that does
\* not parse.
Unparseable == ""
FirstMessages == {"esp32_camera", "esp32_car", "hello", Unparseable}

\* Text without a base64 character, and the Buffer of length zero that
\* Buffer.from(text, 'base64') makes of it (it does not throw).
NoBase64 == <<>>
EmptyBuffer == -1
\* Buffer.toString('base64') and Buffer.from(text, 'base64'): the text form
\* of a payload is a different value from the payload.
Base64Encode(p) == <<p>>
Base64Decode(t) == IF t = NoBase64 THEN EmptyBuffer ELSE t[1]

\* req of POST /frame: raw image bytes (content-type image/*), a Buffer
\* body, a base64 string body, a JSON body {image: base64}, or none of them.
FrameBodies ==
  [kind : {"raw", "buffer"}, data : Payloads]
    \cup [kind : {"base64", "json"}, data : {Base64Encode(p) : p \in Payloads}]
    \cup [kind : {"invalid"}, data : {NoFrame}]

VARIABLES
  readyState,        \* [Conns -> 0..3] state of each peer's transport
  role,              \* [Conns -> {"none","camera","car","viewer"}] Connection.role
  esp32CarClient,    \* app setting: the socket in the car slot, or Null
  esp32CameraClient, \* app setting: the socket in the camera slot, or Null
  webClients,        \* app setting: the set of viewer sockets
  carStatus,         \* app setting carStatus
  carRx,             \* messages written to the car socket, not yet handled
  hubRx,             \* messages the car wrote to the hub, not yet handled
  motorSpeed,        \* firmware: current PWM speed
  motion,            \* firmware: last executed motion
  firmware,          \* firmware: the sketch that runs on the car
  capturing,         \* POST /capture: the locals of the request that awaits
  broken,            \* open transports on which a write no longer arrives
  latestFrame,       \* app setting latestFrame
  frameCount,        \* app setting frameCount
  framesSinceLastCheck, \* app.js: frames counted in the current window
  lastFpsCheck,      \* app.js: Date.now() of the previous throughput tick
  lastSweep,         \* Date.now() of the previous run of the monitor timer
  esp32Status,       \* app setting esp32Status
  received,          \* every payload the frame entry point accepted, in order
  now,               \* Date.now()
  evicted,           \* the evictedConnection the last assignRole returned
  lastOp,            \* the handler that ran last, with its input
  response,          \* what that handler returned to its caller
  out,               \* the socket writes that handler made: {[to, msg]}
  retired,           \* [Conns -> role] the slot an assignRole evicted it from
  deadline,          \* [Conns -> time] end of the handshake wait, or NoTime
  socket,            \* client service: this.socket, or Null
  wsReadyState,      \* client: [Sockets -> 0..3] readyState of each WebSocket
  wsCloseCodes,      \* client: [Sockets -> codes] its close event may carry
  reconnectAttempts, \* client service: this.reconnectAttempts
  reconnectTimeout,  \* client service: this.reconnectTimeout and its timer
  disconnected,      \* disconnect() was called and connect() not since
  call               \* the client step that ran last, with what it did

ctlVars == <<readyState, role, esp32CarClient, esp32CameraClient, webClients,
             carStatus, carRx, hubRx, motorSpeed, motion>>
stepVars == <<evicted, lastOp, response, out>>
camVars == <<latestFrame, frameCount, framesSinceLastCheck, lastFpsCheck,
             lastSweep, esp32Status, received>>
connVars == <<retired, deadline>>
clientVars == <<socket, wsReadyState, wsCloseCodes, reconnectAttempts,
                reconnectTimeout, disconnected, call>>
hubVars == <<ctlVars, firmware, capturing, broken, camVars, now, stepVars,
             connVars>>
vars == <<hubVars, clientVars>>

\* One record shape for every message on a socket; a field a message does
\* not carry is "" (strings), NoField (speed) or NoTime (timestamp).
NoField == -1000
Msg(type, command, speed, status, timestamp, source) ==
  [type |-> type, command |-> command, speed |-> speed, status |-> status,
   timestamp |-> timestamp, source |-> source, image |-> NoImage]
Notice(type) == Msg(type, "", NoField, "", NoTime, "")

Op(name, c, body) == [op |-> name, conn |-> c, body |-> body]
NoResponse == [status |-> 0, error |-> "", command |-> "", speed |-> NoField,
               frame |-> NoFrame, count |-> 0, connected |-> FALSE,
               car |-> <<>>]
Resp(status, error) == [NoResponse EXCEPT !.status = status, !.error = error]

\* No capture request awaits the prediction service.
NoCapture == [active |-> FALSE, latestFrame |-> NoFrame, saved |-> NoFrame,
              sent |-> NoFrame]

\* The state after construction, with sketch fw uploaded to the car.
Boot(fw) ==
  /\ firmware = fw
  /\ capturing = NoCapture
  /\ readyState = [c \in Conns |-> CONNECTING]
  /\ role = [c \in Conns |-> "none"]
  /\ esp32CarClient = Null
  /\ esp32CameraClient = Null
  /\ webClients = {}
  /\ carStatus = [lastCommand |-> NoCommand, lastCommandTime |-> NoTime,
                  lastAckStatus |-> ""]
  /\ carRx = <<>>
  /\ hubRx = <<>>
  /\ motorSpeed = DefaultSpeed
  /\ motion = "stop"
  /\ broken = {}
  /\ latestFrame = NoFrame
  /\ frameCount = 0
  /\ framesSinceLastCheck = 0
  /\ lastFpsCheck = 0
  /\ lastSweep = 0
  /\ esp32Status = [connected |-> FALSE, lastUpdate |-> NoTime, frameCount |-> 0,
                    fps |-> 0]
  /\ received = <<>>
  /\ now = 0
  /\ lastOp = Op("init", Null, NoBody)
  /\ response = NoResponse
  /\ out = {}
  /\ evicted = Null
  /\ retired = [c \in Conns |-> "none"]
  /\ deadline = [c \in Conns |-> NoTime]
  /\ socket = Null
  /\ wsReadyState = [s \in Sockets |-> CLOSED]
  /\ wsCloseCodes = [s \in Sockets |-> {}]
  /\ reconnectAttempts = 0
  /\ reconnectTimeout = "null"
  /\ disconnected = FALSE
  /\ call = [op |-> "init", socket |-> Null, code |-> 0, returned |-> "none",
             emitted |-> <<>>, sent |-> {}, created |-> FALSE]

Init == Boot(CarSketch)

\* --------------------------------------------------------------- registry
\* find(role): the singular-role lookup.
find(r) == IF r = "car" THEN esp32CarClient ELSE esp32CameraClient

\* Broadcast of one envelope to every viewer: the writes it makes.
Broadcast(viewerSet, msg) == {[to |-> v, msg |-> msg] : v \in viewerSet}

\* A newly accepted transport, which has not identified itself yet.
Accept(c) ==
  /\ readyState[c] \in {CONNECTING, CLOSED}
  /\ role[c] = "none"
  /\ c \notin {esp32CarClient, esp32CameraClient} \cup webClients
  /\ readyState' = [readyState EXCEPT ![c] = OPEN]
  /\ retired' = [retired EXCEPT ![c] = "none"]
  /\ deadline' = [deadline EXCEPT ![c] = now + HandshakeTimeout]
  /\ lastOp' = Op("accept", Null, NoBody)
  /\ response' = NoResponse
  /\ out' = {}
  /\ evicted' = Null
  /\ UNCHANGED <<clientVars, firmware, capturing>>
  /\ UNCHANGED <<role, esp32CarClient, esp32CameraClient, webClients, carStatus,
                 carRx, hubRx, motorSpeed, motion, now, camVars, broken>>

\* Mutant: assignRole that never evicts the previous occupant.
EvictedNever(c, r) == Null

\* The occupant that assignRole(c, r) evicts, or Null.
Evicted(c, r) ==
  IF r \in {"camera", "car"} /\ find(r) # Null /\ find(r) # c THEN find(r) ELSE Null

\* Mutant: the evicted occupant's transport is left as it is.
CloseEvictedNever(c, r) == readyState

\* The transports after assignRole: the evicted occupant is closed by the hub.
CloseEvicted(c, r) ==
  IF Evicted(c, r) # Null
  THEN [readyState EXCEPT ![Evicted(c, r)] = CLOSING]
  ELSE readyState

\* Mutant: a new viewer takes the place of the viewers there were.
ViewerSetReplaced(c, r) == IF r = "viewer" THEN {c} ELSE webClients

\* The ViewerSet after assignRole: a viewer is added, nobody is removed.
ViewerSetAfter(c, r) == IF r = "viewer" THEN webClients \cup {c} ELSE webClients

\* Mutant: only the camera is announced to the viewers.
roleConnectedCameraOnly(r) ==
  IF r = "camera" THEN Broadcast(webClients, Notice("camera_connected")) ELSE {}

\* The role-connected notification of a camera or a car, written to every
\* viewer of the viewer set.
roleConnected(r) ==
  IF r = "viewer" THEN {} ELSE Broadcast(webClients, Notice(r \o "_connected"))

\* assignRole(connection, role, identity), followed by the role-connected
\* notification to the current viewers.
Register(c, r) ==
  /\ readyState[c] = OPEN
  /\ role[c] = "none"
  /\ readyState' = CloseEvicted(c, r)
  /\ role' = [x \in Conns |-> IF x = c THEN r
                              ELSE IF x = Evicted(c, r) THEN "none" ELSE role[x]]
  /\ esp32CarClient' = IF r = "car" THEN c ELSE esp32CarClient
  /\ esp32CameraClient' = IF r = "camera" THEN c ELSE esp32CameraClient
  /\ webClients' = ViewerSetAfter(c, r)
  /\ retired' = [x \in Conns |-> IF x = Evicted(c, r) THEN r ELSE retired[x]]
  /\ deadline' = [deadline EXCEPT ![c] = NoTime]
  /\ carRx' = IF r = "car" THEN <<>> ELSE carRx
  /\ hubRx' = IF r = "car" THEN <<>> ELSE hubRx
  /\ evicted' = Evicted(c, r)
  /\ UNCHANGED <<clientVars, firmware, capturing>>
  /\ response' = NoResponse
  /\ out' = roleConnected(r)
  /\ UNCHANGED <<carStatus, motorSpeed, motion, now, camVars, broken>>

\* A peer that identified itself for role r is registered.
assignRole(c, r) ==
  /\ Register(c, r)
  /\ lastOp' = Op("assignRole", c, [NoBody EXCEPT !.command = r])

\* Mutant: a first message without a peer kind registers a viewer.
peerKindLenient(surface, first) ==
  IF first = "esp32_camera" THEN "camera"
  ELSE IF first = "esp32_car" THEN "car"
  ELSE "viewer"

\* The peerKind discriminator of a first message: camera, car, implicitly
\* viewer on the viewer-only surface, or "none" when it is no identification.
peerKind(surface, first) ==
  IF first = "esp32_camera" THEN "camera"
  ELSE IF first = "esp32_car" THEN "car"
  ELSE IF first # Unparseable /\ surface = "viewer" THEN "viewer"
  ELSE "none"

\* The multiplexer's handling of the first inbound message of a transport:
\* parse it, then assignRole, or close the transport with HandshakeError.
Handshake(c, surface, first) ==
  /\ lastOp' = Op("handshake", c, [NoBody EXCEPT !.command = first])
  /\ IF peerKind(surface, first) = "none"
     THEN /\ readyState[c] = OPEN
          /\ role[c] = "none"
          /\ readyState' = [readyState EXCEPT ![c] = CLOSING]
          /\ deadline' = [deadline EXCEPT ![c] = NoTime]
          /\ broken' = broken \ {c}
          /\ response' = Resp(0, "HandshakeError")
          /\ out' = {}
          /\ evicted' = Null
          /\ UNCHANGED <<clientVars, firmware, capturing>>
          /\ UNCHANGED <<role, esp32CarClient, esp32CameraClient, webClients,
                         carStatus, carRx, hubRx, motorSpeed, motion, now, camVars,
                         retired>>
     ELSE Register(c, peerKind(surface, first))

\* Mutant: the handshake wait never ends.
HandshakeExpiredNever(c) == FALSE

\* The handshake timer of a transport has run out.
HandshakeExpired(c) == deadline[c] # NoTime /\ now >= deadline[c]

\* No first message within the handshake timeout: the transport is closed
\* with HandshakeTimeout.
HandshakeExpire(c) ==
  /\ readyState[c] = OPEN
  /\ role[c] = "none"
  /\ HandshakeExpired(c)
  /\ readyState' = [readyState EXCEPT ![c] = CLOSING]
  /\ deadline' = [deadline EXCEPT ![c] = NoTime]
  /\ broken' = broken \ {c}
  /\ lastOp' = Op("handshakeTimeout", c, NoBody)
  /\ response' = Resp(0, "HandshakeTimeout")
  /\ out' = {}
  /\ evicted' = Null
  /\ UNCHANGED <<clientVars, firmware, capturing>>
  /\ UNCHANGED <<role, esp32CarClient, esp32CameraClient, webClients, carStatus,
                 carRx, hubRx, motorSpeed, motion, now, camVars, retired>>

\* The peer's transport goes away (remote close, error); the hub's close
\* handler has not run yet.
TransportClose(c) ==
  /\ readyState[c] = OPEN
  /\ readyState' = [readyState EXCEPT ![c] = CLOSING]
  /\ carRx' = IF c = esp32CarClient THEN <<>> ELSE carRx
  /\ hubRx' = IF c = esp32CarClient THEN <<>> ELSE hubRx
  /\ lastOp' = Op("transportClose", Null, NoBody)
  /\ response' = NoResponse
  /\ out' = {}
  /\ evicted' = Null
  /\ UNCHANGED <<clientVars, firmware, capturing>>
  /\ broken' = broken \ {c}
  /\ deadline' = [deadline EXCEPT ![c] = NoTime]
  /\ UNCHANGED <<role, esp32CarClient, esp32CameraClient, webClients, carStatus,
                 motorSpeed, motion, now, camVars, retired>>

\* Mutant: the close of a device connection frees the device slots, whoever
\* holds them.
releaseAnyOccupant(c) ==
  /\ esp32CarClient' = IF c \in webClients THEN esp32CarClient ELSE Null
  /\ esp32CameraClient' = IF c \in webClients THEN esp32CameraClient ELSE Null
  /\ webClients' = webClients \ {c}
  /\ role' = [role EXCEPT ![c] = "none"]

\* release(connection): removes it from whichever slot or set it occupies.
release(c) ==
  /\ esp32CarClient' = IF esp32CarClient = c THEN Null ELSE esp32CarClient
  /\ esp32CameraClient' = IF esp32CameraClient = c THEN Null ELSE esp32CameraClient
  /\ webClients' = webClients \ {c}
  /\ role' = [role EXCEPT ![c] = "none"]

\* The close event of a transport: release, and the role-disconnected
\* notification when a device slot was freed.
OnClose(c) ==
  /\ readyState[c] = CLOSING
  /\ readyState' = [readyState EXCEPT ![c] = CLOSED]
  /\ release(c)
  /\ lastOp' = Op("onClose", c, NoBody)
  /\ evicted' = Null
  /\ UNCHANGED <<clientVars, firmware, capturing>>
  /\ response' = NoResponse
  /\ out' = IF c \in {esp32CarClient, esp32CameraClient}
            THEN Broadcast(webClients \ {c}, Notice(role[c] \o "_disconnected"))
            ELSE {}
  /\ UNCHANGED <<carStatus, carRx, hubRx, motorSpeed, motion, now, camVars, broken>>
  /\ UNCHANGED connVars

\* -------------------------------------------------- REST car control entry
\* var speed = req.body.speed || 200;
SpeedOf(body) ==
  IF body.hasSpeed /\ body.speed # 0 THEN body.speed ELSE DefaultSpeed

\* Mutant: only a missing command is rejected.
InvalidCommandMissingOnly(command) == command = NoCommand

\* !command || validCommands.indexOf(command) === -1
InvalidCommand(command) == command = NoCommand \/ command \notin validCommands

\* Mutant: the null test of the car slot is forgotten.
CarUnavailableOpenOnly == esp32CarClient # Null /\ readyState[esp32CarClient] # OPEN

\* !esp32CarClient || esp32CarClient.readyState !== 1
CarUnavailable == esp32CarClient = Null \/ readyState[esp32CarClient] # OPEN

\* Mutant: the route keeps the first connection it saw for the car role.
carSocketCached ==
  IF esp32CarClient = Null THEN Null
  ELSE CHOOSE c \in Conns : /\ role[c] = "car" \/ retired[c] = "car"
                            /\ \A d \in Conns :
                                 (role[d] = "car" \/ retired[d] = "car") => c <= d

\* req.app.get("esp32CarClient"): the socket the command is sent on, looked
\* up in the application settings on every request.
carSocket == esp32CarClient

\* JSON.stringify({command, speed[, timestamp, source]})
carCommand(variant, command, speed) ==
  IF variant = "part_007"
  THEN Msg("", command, speed, "", now, "rest_api")
  ELSE Msg("", command, speed, "", NoTime, "")

\* Mutant: the command is recorded before it is validated and before the car
\* is looked up.
carStatusAfterAlways(sent, command) ==
  [carStatus EXCEPT !.lastCommand = command, !.lastCommandTime = now]

\* carStatus after the request: lastCommand and lastCommandTime are written
\* after the send, so only by a request that got that far.
carStatusAfter(sent, command) ==
  IF sent
  THEN [carStatus EXCEPT !.lastCommand = command, !.lastCommandTime = now]
  ELSE carStatus

\* router.post('/control'): validate, look the car up, send, record.
PostControl(variant, body) ==
  /\ lastOp' = Op("control", Null, body)
  /\ evicted' = Null
  /\ UNCHANGED <<clientVars, firmware, capturing>>
  /\ IF InvalidCommand(body.command)
     THEN /\ response' = Resp(400, "Invalid command")
          /\ out' = {}
          /\ carStatus' = carStatusAfter(FALSE, body.command)
          /\ UNCHANGED carRx
     ELSE IF CarUnavailable
     THEN /\ response' = Resp(503, "Car not connected")
          /\ out' = {}
          /\ carStatus' = carStatusAfter(FALSE, body.command)
          /\ UNCHANGED carRx
     ELSE /\ out' = {[to |-> carSocket,
                      msg |-> carCommand(variant, body.command, SpeedOf(body))]}
          /\ carRx' = Append(carRx, carCommand(variant, body.command, SpeedOf(body)))
          /\ carStatus' = carStatusAfter(TRUE, body.command)
          /\ response' = [Resp(200, "") EXCEPT !.command = body.command,
                                               !.speed = SpeedOf(body)]
  /\ UNCHANGED <<readyState, role, esp32CarClient, esp32CameraClient, webClients,
                 hubRx, motorSpeed, motion, now, camVars, broken>>
  /\ UNCHANGED connVars

\* Mutant: the status endpoint reports the flag stored in the record.
isConnectedStored(stored) == stored

\* esp32CarClient && esp32CarClient.readyState === 1, as it appears in the
\* JSON answer: true, false, or (with an empty car slot) null or no value.
isConnectedJson(stored) ==
  IF esp32CarClient = Null THEN "null"
  ELSE IF readyState[esp32CarClient] = OPEN THEN "true" ELSE "false"

\* router.get('/status'): {car: {...carStatus, connected: isConnected}};
\* stored is the connected flag found in the carStatus setting.
GetCarStatus(stored) ==
  /\ lastOp' = Op("carStatus", Null, [NoBody EXCEPT !.command = stored])
  /\ response' = [Resp(200, "") EXCEPT
                    !.car = <<isConnectedJson(stored), carStatus>>]
  /\ out' = {}
  /\ evicted' = Null
  /\ UNCHANGED <<clientVars, firmware, capturing>>
  /\ UNCHANGED <<ctlVars, broken, camVars, now, connVars>>

\* ------------------------------------------------------------ car firmware
\* constrain(speed, 0, 255)
constrain(x, lo, hi) == IF x < lo THEN lo ELSE IF x > hi THEN hi ELSE x

\* Mutant: the acknowledgment names the motion the car starts with, not the
\* command it executed.
ackMsgOfStop(cmd) == Msg("ack", "stop", NoField, "executed", NoTime, "")

\* Mutant: the acknowledgment is sent without its status.
ackMsgNoStatus(cmd) == Msg("ack", cmd, NoField, "", NoTime, "")

\* ackDoc: {type: "ack", command: cmd, status: "executed"}
ackMsg(cmd) == Msg("ack", cmd, NoField, "executed", NoTime, "")

\* The messages a sketch returns from before it looks at the command: the
\* first car sketch drops acknowledgments and an empty command, the second
\* one drops a message without a command key, the combined sketch none.
ignoredBy(fw, doc) ==
  CASE fw = "car_soket.ino:207" ->
         doc.type \in {"ack", "car_ack"} \/ doc.command = NoCommand
    [] fw = "car_soket.ino:485" -> doc.command = NoCommand
    [] OTHER -> FALSE

\* Whether the sketch reaches webSocket.sendTXT(ackMsg): the car sketches
\* return before it on an unknown command, the combined sketch does not.
acknowledgedBy(fw, doc) ==
  /\ ~ignoredBy(fw, doc)
  /\ fw \in {"car_soket.ino:207", "car_soket.ino:485"}
       => doc.command \in validCommands

\* handleCommand(payload) on the car: the head of the messages in flight.
handleCommand ==
  /\ carRx # <<>>
  /\ LET doc == Head(carRx)
         ignored == ignoredBy(firmware, doc)
     IN /\ carRx' = Tail(carRx)
        /\ motorSpeed' = IF ~ignored /\ doc.speed # NoField
                         THEN constrain(doc.speed, 0, 255) ELSE motorSpeed
        /\ motion' = IF ~ignored /\ doc.command \in validCommands
                     THEN doc.command ELSE motion
        /\ hubRx' = IF acknowledgedBy(firmware, doc)
                    THEN Append(hubRx, ackMsg(doc.command)) ELSE hubRx
        /\ lastOp' = Op("handleCommand", Null, NoBody)
  /\ evicted' = Null
  /\ UNCHANGED <<clientVars, firmware, capturing>>
  /\ response' = NoResponse
  /\ out' = {}
  /\ UNCHANGED <<readyState, role, esp32CarClient, esp32CameraClient, webClients,
                 carStatus, now, camVars, broken>>
  /\ UNCHANGED connVars

\* ---------------------------------------------------- acknowledgment relay
\* {type: "car_ack", command, status}
carAck(message) == Msg("car_ack", message.command, NoField, message.status, NoTime, "")

\* The acknowledgment status onCarAck records.
AckStatus(message) == message.status

\* onCarAck(message): record the status and rebroadcast to all viewers.
onCarAck ==
  /\ hubRx # <<>>
  /\ LET message == Head(hubRx)
     IN /\ hubRx' = Tail(hubRx)
        /\ carStatus' = [carStatus EXCEPT !.lastAckStatus = AckStatus(message)]
        /\ out' = Broadcast(webClients, carAck(message))
        /\ lastOp' = Op("onCarAck", Null,
                        [command |-> message.command, hasSpeed |-> FALSE, speed |-> 0])
  /\ evicted' = Null
  /\ UNCHANGED <<clientVars, firmware, capturing>>
  /\ response' = NoResponse
  /\ UNCHANGED <<readyState, role, esp32CarClient, esp32CameraClient, webClients,
                 carRx, motorSpeed, motion, now, camVars, broken>>
  /\ UNCHANGED connVars

\* WStype_TEXT: a text message of the server reaches the car; handleCommand
\* takes it from there.
WStypeText(doc) ==
  /\ carRx' = Append(carRx, doc)
  /\ lastOp' = Op("WStype_TEXT", Null, NoBody)
  /\ evicted' = Null
  /\ response' = NoResponse
  /\ out' = {}
  /\ UNCHANGED <<clientVars, firmware, capturing>>
  /\ UNCHANGED <<readyState, role, esp32CarClient, esp32CameraClient, webClients,
                 carStatus, hubRx, motorSpeed, motion, now, camVars, broken>>
  /\ UNCHANGED connVars

\* ------------------------------------------------------- frame entry point
\* wss.clients: every socket the server has accepted and not yet closed.
wssClients == {c \in Conns : readyState[c] \in {OPEN, CLOSING}}

\* The image bytes POST /frame extracts from the request, or NoFrame.
ExtractFrame(body) ==
  IF body.kind \in {"raw", "buffer"} THEN body.data
  ELSE IF body.kind \in {"base64", "json"} THEN Base64Decode(body.data)
  ELSE NoFrame

\* Mutant: the relay sends the frame that was cached before this one.
frameMessageCached(frame) ==
  [Msg("frame", "", NoField, "", now, "") EXCEPT
     !.image = Base64Encode(IF latestFrame = NoFrame THEN frame ELSE latestFrame)]

\* {type: 'frame', image: latestFrame.toString('base64'), timestamp: Date.now()}
frameMessage(frame) ==
  [Msg("frame", "", NoField, "", now, "") EXCEPT !.image = Base64Encode(frame)]

\* Mutant: the iteration ends after the first socket it visits.
FanOutFirstOnly(clients, msg) ==
  {[to |-> c, msg |-> msg] :
     c \in {x \in clients : readyState[x] = OPEN
                            /\ \A y \in clients : readyState[y] = OPEN => x <= y}}

\* Mutant: the fan-out stops at the first socket whose write fails.
FanOutUntilFailure(clients, msg) ==
  {[to |-> c, msg |-> msg] :
     c \in {x \in clients : readyState[x] = OPEN
                            /\ \A b \in clients \cap broken : x < b}}

\* wss.clients.forEach: client.send(frameMessage) to every OPEN client.
FanOut(clients, msg) ==
  {[to |-> c, msg |-> msg] : c \in {x \in clients : readyState[x] = OPEN}}

\* The writes of the last handler that reached their peer: a write on a
\* broken transport is buffered by the socket and lost, without an exception.
Delivered == {w \in out : w.to \notin broken}

\* Mutant: a new frame is cached only while the cache is empty.
StoreFrameIfEmpty(frame) == IF latestFrame = NoFrame THEN frame ELSE latestFrame

\* app.set('latestFrame', latestFrame)
StoreFrame(frame) == frame

\* Mutant: the throughput counter is not incremented.
incrementFrameCountNever == framesSinceLastCheck

\* incrementFrameCount: framesSinceLastCheck++
incrementFrameCount == framesSinceLastCheck + 1

\* Mutant: the sequence number is not advanced.
nextFrameCountStuck == frameCount

\* var frameCount = app.get('frameCount') + 1
nextFrameCount == frameCount + 1

\* Mutant: an accepted frame records its time but not that the camera is
\* connected.
esp32StatusAfterTimeOnly(hasFrame) ==
  IF hasFrame
  THEN [esp32Status EXCEPT !.lastUpdate = now, !.frameCount = nextFrameCount]
  ELSE esp32Status

\* Mutant: the camera is marked connected before the body is examined.
esp32StatusAfterAlways(hasFrame) ==
  [esp32Status EXCEPT !.connected = TRUE, !.lastUpdate = now,
                      !.frameCount = IF hasFrame THEN nextFrameCount ELSE @]

\* esp32Status after the request: written inside if (latestFrame) only.
esp32StatusAfter(hasFrame) ==
  IF hasFrame
  THEN [esp32Status EXCEPT !.connected = TRUE, !.lastUpdate = now,
                           !.frameCount = nextFrameCount]
  ELSE esp32Status

\* router.post('/frame'): cache, count, mark the camera connected, fan out.
PostFrame(body) ==
  /\ lastOp' = Op("frame", Null,
                [NoBody EXCEPT !.command = IF ExtractFrame(body) = NoFrame
                                           THEN "invalid" ELSE "image"])
  /\ evicted' = Null
  /\ UNCHANGED <<clientVars, firmware, capturing>>
  /\ IF ExtractFrame(body) # NoFrame
     THEN /\ latestFrame' = StoreFrame(ExtractFrame(body))
          /\ frameCount' = nextFrameCount
          /\ framesSinceLastCheck' = incrementFrameCount
          /\ esp32Status' = esp32StatusAfter(TRUE)
          /\ received' = Append(received, ExtractFrame(body))
          /\ out' = FanOut(wssClients, frameMessage(ExtractFrame(body)))
          /\ response' = [Resp(200, "") EXCEPT !.count = nextFrameCount]
     ELSE /\ response' = Resp(400, "Invalid frame data")
          /\ out' = {}
          /\ esp32Status' = esp32StatusAfter(FALSE)
          /\ UNCHANGED <<latestFrame, frameCount, framesSinceLastCheck, received>>
  /\ UNCHANGED <<ctlVars, broken, lastFpsCheck, lastSweep, now, connVars>>

\* Mutant: the snapshot reads the first frame that was ever cached.
latestOldest == IF received = <<>> THEN NoFrame ELSE received[1]

\* req.app.get('latestFrame'): the current content of the frame cache.
latest == latestFrame

\* router.get('/snapshot'): the cached frame, or 404.
Snapshot ==
  /\ lastOp' = Op("snapshot", Null, NoBody)
  /\ evicted' = Null
  /\ UNCHANGED <<clientVars, firmware, capturing>>
  /\ out' = {}
  /\ response' = IF latest = NoFrame THEN Resp(404, "No frame available")
                 ELSE [Resp(200, "") EXCEPT !.frame = latest]
  /\ UNCHANGED <<ctlVars, broken, camVars, now>>
  /\ UNCHANGED connVars

\* router.post('/capture') up to its await: the cached frame is read once
\* into the local latestFrame; without a frame the answer is 404; else the
\* local is written to a file (not in production, and the write may fail)
\* and posted to the prediction service.
CaptureBegin(saves) ==
  /\ ~capturing.active
  /\ lastOp' = Op("captureBegin", Null, NoBody)
  /\ evicted' = Null
  /\ out' = {}
  /\ IF latestFrame = NoFrame
     THEN /\ response' = Resp(404, "No frame available")
          /\ capturing' = NoCapture
     ELSE /\ response' = NoResponse
          /\ capturing' = [active |-> TRUE, latestFrame |-> latestFrame,
                           saved |-> IF saves THEN latestFrame ELSE NoFrame,
                           sent |-> latestFrame]
  /\ UNCHANGED <<clientVars, firmware>>
  /\ UNCHANGED <<ctlVars, broken, camVars, now, connVars>>

\* Mutant: the size in the answer is taken from the cache as it is when the
\* prediction service has answered.
sizedFrameReread == latestFrame

\* size: latestFrame.length, of the local the request read at its start.
sizedFrame == capturing.latestFrame

\* router.post('/capture') after its await: the prediction service answered,
\* failed or timed out; the answer carries the size of the local frame.
CaptureEnd ==
  /\ capturing.active
  /\ lastOp' = Op("capture", Null, NoBody)
  /\ evicted' = Null
  /\ out' = {}
  /\ response' = [Resp(200, "") EXCEPT !.frame = sizedFrame]
  /\ capturing' = [capturing EXCEPT !.active = FALSE]
  /\ UNCHANGED <<clientVars, firmware>>
  /\ UNCHANGED <<ctlVars, broken, camVars, now, connVars>>

\* router.post('/capture') when no other handler runs during its await: the
\* cached frame is read once, saved and sent to the prediction service; the
\* answer carries the frame's size, or 404.
Capture ==
  /\ lastOp' = Op("capture", Null, NoBody)
  /\ evicted' = Null
  /\ UNCHANGED <<clientVars, firmware, capturing>>
  /\ out' = {}
  /\ response' = IF latestFrame = NoFrame THEN Resp(404, "No frame available")
                 ELSE [Resp(200, "") EXCEPT !.frame = latestFrame]
  /\ UNCHANGED <<ctlVars, broken, camVars, now, connVars>>

\* router.get('/'): the API status, which reports esp32Status as it is.
GetStatus ==
  /\ lastOp' = Op("status", Null, NoBody)
  /\ evicted' = Null
  /\ UNCHANGED <<clientVars, firmware, capturing>>
  /\ out' = {}
  /\ response' = [Resp(200, "") EXCEPT !.connected = esp32Status.connected,
                                       !.count = esp32Status.frameCount]
  /\ UNCHANGED <<ctlVars, broken, camVars, now, connVars>>

\* A peer's transport stops carrying writes (a hung or vanished peer) while
\* its socket still reports OPEN.
TransportBreak(c) ==
  /\ readyState[c] = OPEN
  /\ c \notin broken
  /\ broken' = broken \cup {c}
  /\ lastOp' = Op("transportBreak", Null, NoBody)
  /\ evicted' = Null
  /\ UNCHANGED <<clientVars, firmware, capturing>>
  /\ response' = NoResponse
  /\ out' = {}
  /\ UNCHANGED <<ctlVars, camVars, now>>
  /\ UNCHANGED connVars

\* ------------------------------------------------------------------ timers
\* Mutant: the rate is truncated instead of rounded.
MathFloor(n, d) == n \div d

\* Math.round(n / d) for n >= 0, d > 0: the nearest integer, halves upward.
MathRound(n, d) == (2 * n + d) \div (2 * d)

\* setInterval(..., 1000): recompute fps and reset the window.
FpsTick ==
  /\ now - lastFpsCheck >= FpsPeriod
  /\ esp32Status' = [esp32Status EXCEPT
                       !.fps = MathRound(framesSinceLastCheck * 1000, now - lastFpsCheck)]
  /\ framesSinceLastCheck' = 0
  /\ lastFpsCheck' = now
  /\ lastOp' = Op("fpsTick", Null, NoBody)
  /\ evicted' = Null
  /\ UNCHANGED <<clientVars, firmware, capturing>>
  /\ response' = NoResponse
  /\ out' = {}
  /\ UNCHANGED <<ctlVars, broken, latestFrame, frameCount, lastSweep, received,
                 now>>
  /\ UNCHANGED connVars

\* Mutant: a camera becomes stale as soon as the threshold is reached.
StaleAtThreshold == esp32Status.lastUpdate # NoTime
                    /\ now - esp32Status.lastUpdate >= StaleAfter

\* esp32Status.lastUpdate && Date.now() - lastUpdate > 5000
Stale == esp32Status.lastUpdate # NoTime /\ now - esp32Status.lastUpdate > StaleAfter

\* setInterval(..., 2000): mark a silent camera disconnected.
MonitorSweep ==
  /\ now - lastSweep >= MonitorPeriod
  /\ lastSweep' = now
  /\ esp32Status' = IF Stale
                    THEN [esp32Status EXCEPT !.connected = FALSE, !.fps = 0]
                    ELSE esp32Status
  /\ lastOp' = Op(IF ~Stale THEN "sweep"
                   ELSE IF esp32Status.connected THEN "sweepNewlyStale"
                   ELSE "sweepStillStale", Null, NoBody)
  /\ evicted' = Null
  /\ UNCHANGED <<clientVars, firmware, capturing>>
  /\ response' = NoResponse
  /\ out' = {}
  /\ UNCHANGED <<ctlVars, broken, latestFrame, frameCount, framesSinceLastCheck,
                 lastFpsCheck, received, now>>
  /\ UNCHANGED connVars

\* Date.now() advances by one step of the clock.
Elapse ==
  /\ now' = now + ClockStep
  /\ lastOp' = Op("tick", Null, NoBody)
  /\ evicted' = Null
  /\ UNCHANGED <<clientVars, firmware, capturing>>
  /\ response' = NoResponse
  /\ out' = {}
  /\ UNCHANGED <<ctlVars, camVars, broken>>
  /\ UNCHANGED connVars

\* Time passes, unless a timer callback is overdue.
Tick ==
  /\ now - lastFpsCheck < FpsPeriod + MaxLate
  /\ now - lastSweep < MonitorPeriod + MaxLate
  /\ Elapse

\* --------------------------------------------------------- client service
\* CarSocketService, CameraSocketService and IoTSocketService share the code
\* modelled here; only the path of the endpoint and the names of the events
\* they pass on differ.
Call(name, s) == [op |-> name, socket |-> s, code |-> 0, returned |-> "none",
                  emitted |-> <<>>, sent |-> {}, created |-> FALSE]

\* The codes the close event of a socket may carry after close() was called
\* on it: a socket that was still connecting fails (abnormal closure, or the
\* requested code where the platform reports that); an open socket closes
\* with the requested code, and without one either with normal closure (React
\* Native's default) or with no status (browsers).
closeCodesOf(state, normal) ==
  IF state = CONNECTING THEN {NormalClosure, 1006}
  ELSE IF normal THEN {NormalClosure}
  ELSE {NormalClosure, 1005}

\* this.socket.close(...): the readyState of the sockets after the call.
AfterClose(s) ==
  IF wsReadyState[s] \in {CONNECTING, OPEN}
  THEN [wsReadyState EXCEPT ![s] = CLOSING]
  ELSE wsReadyState

\* this.socket.close(...): the codes the close events may carry after it.
CodesAfterClose(s, normal) ==
  IF wsReadyState[s] \in {CONNECTING, OPEN}
  THEN [wsCloseCodes EXCEPT ![s] = closeCodesOf(wsReadyState[s], normal)]
  ELSE wsCloseCodes

\* Mutant: reconnection without a limit on the attempts.
scheduleReconnectUnlimited(attempts, timeout) ==
  [attempts |-> attempts + 1, timeout |-> "armed", emitted |-> <<>>]

\* scheduleReconnect(): give up with an error at the limit, else count the
\* attempt and arm the timer (which replaces a timer that was armed).
scheduleReconnect(attempts, timeout) ==
  IF attempts >= maxReconnectAttempts
  THEN [attempts |-> attempts, timeout |-> timeout, emitted |-> <<"error">>]
  ELSE [attempts |-> attempts + 1, timeout |-> "armed", emitted |-> <<>>]

\* connectWebSocket(): close and forget the socket there is, construct a new
\* WebSocket; when the constructor throws, emit the error and schedule a
\* reconnection.
connectWebSocket(name, throws, attempts, timeout) ==
  LET rs == IF socket # Null THEN AfterClose(socket) ELSE wsReadyState
      cc == IF socket # Null THEN CodesAfterClose(socket, FALSE) ELSE wsCloseCodes
      free == {s \in Sockets : rs[s] = CLOSED}
      ws == CHOOSE s \in free : \A t \in free : s <= t
      sched == scheduleReconnect(attempts, timeout)
  IN IF throws
     THEN /\ socket' = Null
          /\ wsReadyState' = rs
          /\ wsCloseCodes' = cc
          /\ reconnectAttempts' = sched.attempts
          /\ reconnectTimeout' = sched.timeout
          /\ call' = [Call(name, Null) EXCEPT
                        !.emitted = <<"error">> \o sched.emitted,
                        !.created = TRUE]
     ELSE /\ free # {}
          /\ socket' = ws
          /\ wsReadyState' = [rs EXCEPT ![ws] = CONNECTING]
          /\ wsCloseCodes' = [cc EXCEPT ![ws] = {1006}]
          /\ reconnectAttempts' = attempts
          /\ reconnectTimeout' = timeout
          /\ call' = [Call(name, ws) EXCEPT !.created = TRUE]

\* connect(backendUrl): nothing when the socket is open, else connectWebSocket.
Connect(throws) ==
  /\ disconnected' = FALSE
  /\ IF socket # Null /\ wsReadyState[socket] = OPEN
     THEN /\ call' = Call("connect", socket)
          /\ UNCHANGED <<socket, wsReadyState, wsCloseCodes, reconnectAttempts,
                         reconnectTimeout>>
     ELSE connectWebSocket("connect", throws, reconnectAttempts, reconnectTimeout)
  /\ UNCHANGED hubVars

\* The reconnection timer runs: connectWebSocket. The handle of the timer
\* stays in this.reconnectTimeout.
ReconnectTimer(throws) ==
  /\ reconnectTimeout = "armed"
  /\ connectWebSocket("timer", throws, reconnectAttempts, "fired")
  /\ UNCHANGED <<disconnected, hubVars>>

\* ws.onopen: reset the attempts, clear a pending reconnection.
OnOpen(s) ==
  /\ wsReadyState[s] = CONNECTING
  /\ wsReadyState' = [wsReadyState EXCEPT ![s] = OPEN]
  /\ wsCloseCodes' = [wsCloseCodes EXCEPT ![s] = {NormalClosure, 1006}]
  /\ reconnectAttempts' = 0
  /\ reconnectTimeout' = "null"
  /\ call' = [Call("open", s) EXCEPT !.emitted = <<"connected(true)">>]
  /\ UNCHANGED <<socket, disconnected, hubVars>>

\* ws.onerror: the error is passed on.
OnError(s) ==
  /\ wsReadyState[s] \in {CONNECTING, OPEN}
  /\ call' = [Call("error", s) EXCEPT !.emitted = <<"error">>]
  /\ UNCHANGED <<socket, wsReadyState, wsCloseCodes, reconnectAttempts,
                 reconnectTimeout, disconnected, hubVars>>

\* ws.onclose: reconnect unless the code is normal closure.
OnCloseEvent(s, code) ==
  /\ wsReadyState[s] \in {CONNECTING, OPEN, CLOSING}
  /\ code \in wsCloseCodes[s]
  /\ wsReadyState' = [wsReadyState EXCEPT ![s] = CLOSED]
  /\ wsCloseCodes' = [wsCloseCodes EXCEPT ![s] = {}]
  /\ LET sched == IF code # NormalClosure
                  THEN scheduleReconnect(reconnectAttempts, reconnectTimeout)
                  ELSE [attempts |-> reconnectAttempts,
                        timeout |-> reconnectTimeout, emitted |-> <<>>]
     IN /\ reconnectAttempts' = sched.attempts
        /\ reconnectTimeout' = sched.timeout
        /\ call' = [Call("close", s) EXCEPT
                      !.code = code,
                      !.emitted = <<"connected(false)">> \o sched.emitted]
  /\ UNCHANGED <<socket, disconnected, hubVars>>

\* disconnect(): the reconnection timer is cleared only inside
\* if (this.socket).
timeoutAfterDisconnect == IF socket # Null THEN "null" ELSE reconnectTimeout

\* disconnect(): clear the timer and close the socket with code 1000 when
\* there is a socket; clear the listeners and reset the attempts.
Disconnect ==
  /\ reconnectTimeout' = timeoutAfterDisconnect
  /\ wsReadyState' = IF socket # Null THEN AfterClose(socket) ELSE wsReadyState
  /\ wsCloseCodes' = IF socket # Null THEN CodesAfterClose(socket, TRUE)
                     ELSE wsCloseCodes
  /\ socket' = Null
  /\ reconnectAttempts' = 0
  /\ disconnected' = TRUE
  /\ call' = Call("disconnect", socket)
  /\ UNCHANGED hubVars

\* Mutant: a socket that exists counts as connected.
isConnectedAnySocket == socket # Null

\* isConnected(): this.socket?.readyState === WebSocket.OPEN
isConnected == socket # Null /\ wsReadyState[socket] = OPEN

\* sendCommand(command, speed): refuse without an open socket, else send
\* {command, speed, timestamp}; a send that throws is reported as an error.
sendCommand(command, speed, throws) ==
  /\ call' = IF ~isConnected
             THEN [Call("sendCommand", socket) EXCEPT
                     !.emitted = <<"error">>, !.returned = "false"]
             ELSE IF throws
             THEN [Call("sendCommand", socket) EXCEPT
                     !.emitted = <<"error">>, !.returned = "false"]
             ELSE [Call("sendCommand", socket) EXCEPT
                     !.returned = "true",
                     !.sent = {[to |-> socket, command |-> command,
                                speed |-> speed]}]
  /\ UNCHANGED <<socket, wsReadyState, wsCloseCodes, reconnectAttempts,
                 reconnectTimeout, disconnected, hubVars>>

\* resetReconnectAttempts()
resetReconnectAttempts ==
  /\ reconnectAttempts' = 0
  /\ call' = Call("resetReconnectAttempts", socket)
  /\ UNCHANGED <<socket, wsReadyState, wsCloseCodes, reconnectTimeout,
                 disconnected, hubVars>>

\* ---------------------------------------------------------- specifications
\* The registry: every peer may take every role.
Next ==
  \/ \E c \in Conns : Accept(c)
  \/ \E c \in Conns, r \in Surfaces : assignRole(c, r)
  \/ \E c \in Conns : TransportClose(c)
  \/ \E c \in Conns : OnClose(c)

Spec == Init /\ [][Next]_vars

\* The command router: car peers come and go while commands are submitted.
NextControl ==
  \/ \E c \in CarPeers : Accept(c)
  \/ \E c \in CarPeers : assignRole(c, "car")
  \/ \E c \in CarPeers : TransportClose(c)
  \/ \E c \in CarPeers : OnClose(c)
  \/ \E v \in Variants, body \in Bodies :
       Len(carRx) < MaxInFlight /\ PostControl(v, body)

SpecControl == Init /\ [][NextControl]_vars

\* The acknowledgment path: one car, the viewers, and the commands that
\* travel hub -> car -> hub -> viewers.
NextAck ==
  \/ Accept(CarPeer)
  \/ assignRole(CarPeer, "car")
  \/ \E c \in ViewerPeers : Accept(c)
  \/ \E c \in ViewerPeers : assignRole(c, "viewer")
  \/ \E c \in ViewerPeers : TransportClose(c)
  \/ \E c \in ViewerPeers : OnClose(c)
  \/ \E v \in Variants, body \in AckBodies :
       Len(carRx) < MaxInFlight /\ PostControl(v, body)
  \/ Len(hubRx) < MaxInFlight /\ handleCommand
  \/ onCarAck

SpecAck == Init /\ [][NextAck]_vars

\* The frame relay: viewers come, break and go while frames are posted and
\* snapshots are taken.
NextRelay ==
  \/ \E c \in Conns : Accept(c)
  \/ \E c \in Conns : assignRole(c, "viewer")
  \/ \E c \in Conns : TransportBreak(c)
  \/ \E c \in Conns : TransportClose(c)
  \/ \E c \in Conns : OnClose(c)
  \/ \E body \in FrameBodies : frameCount < MaxFrames /\ PostFrame(body)
  \/ Snapshot

SpecRelay == Init /\ [][NextRelay]_vars

\* The throughput window: many frames, a few windows.
NextFps ==
  \/ frameCount < MaxWindowFrames /\ PostFrame([kind |-> "raw", data |-> 1])
  \/ FpsTick
  \/ MonitorSweep
  \/ now < MaxFpsTicks * ClockStep /\ Tick

SpecFps == Init /\ [][NextFps]_vars

\* The liveness monitor: a camera and the viewers connect at the start, a
\* few frames arrive, and time passes beyond the staleness threshold.
NextMonitor ==
  \/ now = 0 /\ Accept(CameraPeer)
  \/ assignRole(CameraPeer, "camera")
  \/ \E c \in ViewerPeers : now = 0 /\ Accept(c)
  \/ \E c \in ViewerPeers : assignRole(c, "viewer")
  \/ frameCount < MaxMonitorFrames /\ PostFrame([kind |-> "raw", data |-> 1])
  \/ GetStatus
  \/ FpsTick
  \/ MonitorSweep
  \/ now < MaxMonitorTicks * ClockStep /\ Tick

SpecMonitor == Init /\ [][NextMonitor]_vars

\* The frame a camera posts as its n-th: the payload is its sequence number,
\* sent as raw bytes or as base64 text.
NthFrame(n) ==
  {[kind |-> "raw", data |-> n], [kind |-> "base64", data |-> Base64Encode(n)]}

\* The order of frames: the camera posts its frames in the order it produced
\* them while viewers join, lose their transport and leave.
NextOrder ==
  \/ \E c \in ViewerPeers : Accept(c)
  \/ \E c \in ViewerPeers : assignRole(c, "viewer")
  \/ \E c \in ViewerPeers : TransportBreak(c)
  \/ \E c \in ViewerPeers : TransportClose(c)
  \/ \E c \in ViewerPeers : OnClose(c)
  \/ \E body \in NthFrame(frameCount + 1) :
       frameCount < MaxOrderFrames /\ PostFrame(body)

SpecOrder == Init /\ [][NextOrder]_vars

\* The handshake: transports are accepted early enough for their timeout to
\* fall inside the run; their peers identify themselves, send something
\* else, go away, or stay silent. The periodic callbacks of app.js take no
\* part in these runs.
HandshakeTicking == now < MaxHandshakeTicks * ClockStep /\ Elapse

NextHandshake ==
  \/ \E c \in HandshakePeers :
       now + HandshakeTimeout <= MaxHandshakeTicks * ClockStep /\ Accept(c)
  \/ \E c \in HandshakePeers, surface \in Surfaces, first \in FirstMessages :
       Handshake(c, surface, first)
  \/ \E c \in HandshakePeers : HandshakeExpire(c)
  \/ \E c \in HandshakePeers : TransportClose(c)
  \/ \E c \in HandshakePeers : OnClose(c)
  \/ HandshakeTicking

SpecHandshake == Init /\ [][NextHandshake]_vars

\* The same runs with the clock and the handshake timers of the hub
\* running: time passes, and a handshake timer that has run out closes its
\* transport.
SpecHandshakeFair ==
  /\ SpecHandshake
  /\ WF_vars(HandshakeTicking)
  /\ \A c \in HandshakePeers : WF_vars(HandshakeExpire(c))

\* The frame cache: frames are posted while every other operation of the hub
\* runs: snapshots, captures, commands to a car, and the two periodic
\* callbacks.
CacheBodies == {b \in Bodies : b.command \in {"stop", "diagonal"} /\ ~b.hasSpeed}

NextCache ==
  \/ now = 0 /\ Accept(CarPeer)
  \/ assignRole(CarPeer, "car")
  \/ \E body \in FrameBodies : frameCount < MaxCacheFrames /\ PostFrame(body)
  \/ Snapshot
  \/ Capture
  \/ \E body \in CacheBodies :
       Len(carRx) < MaxInFlight /\ PostControl("routes/car.js", body)
  \/ FpsTick
  \/ MonitorSweep
  \/ now < MaxCacheTicks * ClockStep /\ Tick

SpecCache == Init /\ [][NextCache]_vars

\* Commands under camera traffic: the camera streams frames while commands
\* travel hub -> car -> hub -> viewer; the car and the viewer stay
\* connected.
StreamBodies == {b \in Bodies : b.command \in {"left", "stop"} /\ ~b.hasSpeed}

StreamCommands == {b.command : b \in StreamBodies}

StreamViewer == CHOOSE c \in ViewerPeers : \A d \in ViewerPeers : c <= d

CarHandles == Len(hubRx) < MaxInFlight /\ handleCommand

NextStream ==
  \/ Accept(CarPeer)
  \/ assignRole(CarPeer, "car")
  \/ Accept(StreamViewer)
  \/ assignRole(StreamViewer, "viewer")
  \/ frameCount < MaxStreamFrames /\ PostFrame([kind |-> "raw", data |-> 1])
  \/ \E v \in Variants, body \in StreamBodies :
       Len(carRx) < MaxInFlight /\ PostControl(v, body)
  \/ CarHandles
  \/ onCarAck

SpecStream == Init /\ [][NextStream]_vars

\* The same runs with the handlers scheduled fairly: the car's loop handles
\* a message it has received, and the hub's event loop dispatches an
\* acknowledgment it has received.
SpecStreamFair == SpecStream /\ WF_vars(CarHandles) /\ WF_vars(onCarAck)

\* The client service: the application connects, sends and disconnects
\* while sockets open, fail and close and the reconnection timer runs.
NextClient ==
  \/ \E throws \in BOOLEAN : Connect(throws)
  \/ \E throws \in BOOLEAN : ReconnectTimer(throws)
  \/ \E s \in Sockets : OnOpen(s)
  \/ \E s \in Sockets : OnError(s)
  \/ \E s \in Sockets, code \in CloseCodes : OnCloseEvent(s, code)
  \/ Disconnect
  \/ \E command \in {"forward", "stop"}, throws \in BOOLEAN :
       sendCommand(command, DefaultSpeed, throws)
  \/ resetReconnectAttempts

SpecClient == Init /\ [][NextClient]_vars

\* The text messages of the firmware runs: a command the car knows, one it
\* does not know and a message without a command, each with and without a
\* speed, and the car's acknowledgment as the car writes it and as the hub
\* rebroadcasts it.
FirmwareDocs ==
  {Msg("", c, sp, "", NoTime, "") : c \in {"left", "diagonal", NoCommand},
                                    sp \in {NoField, 256}}
    \cup {ackMsg("left"), carAck(ackMsg("left"))}

\* The car firmware, whichever sketch of the repository was uploaded: text
\* messages arrive, the car handles them, the hub takes the acknowledgments.
NextFirmware ==
  \/ \E doc \in FirmwareDocs : Len(carRx) < MaxInFlight /\ WStypeText(doc)
  \/ CarHandles
  \/ onCarAck

SpecFirmware == (\E fw \in Sketches : Boot(fw)) /\ [][NextFirmware]_vars

\* Captures while frames arrive: a capture request awaits the prediction
\* service, and frames are posted and snapshots taken meanwhile.
NextCapture ==
  \/ \E body \in FrameBodies : frameCount < MaxCaptureFrames /\ PostFrame(body)
  \/ \E saves \in BOOLEAN : CaptureBegin(saves)
  \/ CaptureEnd
  \/ Snapshot

SpecCapture == Init /\ [][NextCapture]_vars

\* Frame submissions of every kind, one of them a text body that is not
\* base64, while a viewer is connected and time passes.
IngestBodies == FrameBodies \cup [kind : {"base64"}, data : {NoBase64}]

NextIngest ==
  \/ now = 0 /\ Accept(StreamViewer)
  \/ assignRole(StreamViewer, "viewer")
  \/ \E body \in IngestBodies : frameCount < MaxIngestFrames /\ PostFrame(body)
  \/ now < MaxIngestTicks * ClockStep /\ Elapse

SpecIngest == Init /\ [][NextIngest]_vars

\* The camera status over time: frames arrive with pauses of any length,
\* the two timers run, on time or late. A frame arrives only while the run
\* has time left for the monitor to notice the silence that follows it.
SilenceNoticed == StaleAfter + MonitorPeriod + MaxLate

RecoveryFrame ==
  /\ frameCount < MaxRecoveryFrames
  /\ now + SilenceNoticed <= MaxRecoveryTicks * ClockStep
  /\ PostFrame([kind |-> "raw", data |-> 1])

RecoveryTicking == now < MaxRecoveryTicks * ClockStep /\ Tick

NextRecovery ==
  \/ RecoveryFrame
  \/ FpsTick
  \/ MonitorSweep
  \/ RecoveryTicking

SpecRecovery == Init /\ [][NextRecovery]_vars

\* The timers run and time passes.
SpecRecoveryFair ==
  /\ SpecRecovery
  /\ WF_vars(FpsTick)
  /\ WF_vars(MonitorSweep)
  /\ WF_vars(RecoveryTicking)

\* The car status endpoint: cars connect, are replaced and leave, commands
\* are submitted, and the status is requested with either flag stored.
StoredFlags == {"true", "false"}

NextCarStatus ==
  \/ \E c \in CarPeers : Accept(c)
  \/ \E c \in CarPeers : assignRole(c, "car")
  \/ \E c \in CarPeers : TransportClose(c)
  \/ \E c \in CarPeers : OnClose(c)
  \/ \E body \in CacheBodies :
       Len(carRx) < MaxInFlight /\ PostControl("part_007", body)
  \/ \E stored \in StoredFlags : GetCarStatus(stored)

SpecCarStatus == Init /\ [][NextCarStatus]_vars

\* ------------------------------------------------------------------ claims
\* C1: at most one Connection occupies the camera slot and at most one the
\* car slot in every reachable state, the slot variable names exactly that
\* Connection, and an assignRole that found the slot occupied has evicted
\* (closed and unregistered) the previous occupant.
SingleOccupant ==
  /\ \A r \in {"camera", "car"} : Cardinality({c \in Conns : role[c] = r}) <= 1
  /\ \A c \in Conns : (role[c] = "car") <=> (esp32CarClient = c)
  /\ \A c \in Conns : (role[c] = "camera") <=> (esp32CameraClient = c)
  /\ (lastOp.op = "assignRole" /\ evicted # Null) =>
       /\ readyState[evicted] # OPEN
       /\ role[evicted] = "none"
       /\ evicted \notin {esp32CarClient, esp32CameraClient}

\* C1 witness: a second occupant was assigned to an occupied slot.
SecondOccupantAssigned ==
  /\ lastOp.op = "assignRole"
  /\ evicted # Null
  /\ \E c \in Conns : role[c] \in {"camera", "car"} /\ readyState[c] = OPEN

\* C2: a submit whose command is outside {forward, backward, left, right,
\* stop} is answered 400 Invalid command and writes nothing to any socket,
\* whether or not a car is connected.
InvalidCommandRejected ==
  (lastOp.op = "control"
   /\ lastOp.body.command \notin {"forward", "backward", "left", "right", "stop"})
  => (response.status = 400 /\ response.error = "Invalid command" /\ out = {})

\* C2 witness: "diagonal" was submitted while an open car held the car slot.
DiagonalWithCarConnected ==
  /\ lastOp.op = "control"
  /\ lastOp.body.command = "diagonal"
  /\ esp32CarClient # Null
  /\ readyState[esp32CarClient] = OPEN
  /\ response.status = 400

\* C3 (as claimed): a valid command with a speed outside [0,255] is answered
\* 400 and nothing is sent to the car.
SpeedOutOfRangeRejected ==
  (lastOp.op = "control"
   /\ lastOp.body.command \in {"forward", "backward", "left", "right", "stop"}
   /\ lastOp.body.hasSpeed
   /\ (lastOp.body.speed < 0 \/ lastOp.body.speed > 255))
  => (response.status = 400 /\ out = {})

\* C4: a submit of a valid command while the car slot is empty is answered
\* 503 Car not connected and no write to any socket was made in that step.
UnavailableCar ==
  (lastOp.op = "control"
   /\ lastOp.body.command \in {"forward", "backward", "left", "right", "stop"}
   /\ esp32CarClient = Null)
  => (response.status = 503 /\ response.error = "Car not connected" /\ out = {})

\* C4 witness: a valid command was submitted with the car slot empty.
ValidCommandNoCar ==
  /\ lastOp.op = "control"
  /\ lastOp.body.command = "forward"
  /\ esp32CarClient = Null
  /\ response.status = 503

\* C5 (as claimed): a valid command with a speed in [0,255], submitted while
\* an open car holds the car slot, is answered 200 and exactly one message
\* goes to the car, carrying the submitted command and the submitted speed,
\* and lastCommand / lastCommandTime are recorded.
AcceptedForwardsSubmitted ==
  (lastOp.op = "control"
   /\ lastOp.body.command \in {"forward", "backward", "left", "right", "stop"}
   /\ lastOp.body.hasSpeed
   /\ lastOp.body.speed >= 0 /\ lastOp.body.speed <= 255
   /\ esp32CarClient # Null
   /\ readyState[esp32CarClient] = OPEN)
  => /\ response.status = 200
     /\ Cardinality(out) = 1
     /\ \A w \in out : /\ w.to = esp32CarClient
                       /\ w.msg.command = lastOp.body.command
                       /\ w.msg.speed = lastOp.body.speed
     /\ carStatus.lastCommand = lastOp.body.command
     /\ carStatus.lastCommandTime = now

FanOutIsolation ==
  (lastOp.op = "frame" /\ lastOp.body.command # "invalid")
  => /\ response.status = 200
     /\ \A c \in webClients :
          (readyState[c] = OPEN /\ c \notin broken)
          => \E w \in Delivered : /\ w.to = c
                                  /\ w.msg.type = "frame"
                                  /\ Base64Decode(w.msg.image) = latestFrame

\* C7 witness: a frame was fanned out to three viewers, one of them with a
\* failing transport, and the other two received it.
OneOfThreeViewersFails ==
  /\ lastOp.op = "frame"
  /\ response.status = 200
  /\ Cardinality(webClients) >= 3
  /\ Cardinality(webClients \cap broken) = 1
  /\ \A c \in webClients : readyState[c] = OPEN
  /\ {w.to : w \in Delivered} = webClients \ broken

\* C8 (as claimed): the sweep that finds the camera newly stale empties the
\* camera slot and writes one camera_disconnected notification to every
\* viewer; a sweep that finds it still stale writes nothing.
StaleSweepEvictsAndNotifies ==
  /\ lastOp.op = "sweepNewlyStale" =>
       /\ esp32CameraClient = Null
       /\ out = Broadcast(webClients, Notice("camera_disconnected"))
  /\ lastOp.op = "sweepStillStale" => out = {}

\* C9: a throughput tick sets fps to the frames counted in the window divided
\* by the elapsed seconds, rounded to the nearest integer (15 frames in
\* 1000 ms give 15), and resets the window counter to 0; an accepted frame
\* increments the window counter by exactly one.
ThroughputStep ==
  /\ lastOp'.op = "fpsTick" =>
       /\ 2 * (esp32Status'.fps * (now - lastFpsCheck) - framesSinceLastCheck * 1000)
            <= now - lastFpsCheck
       /\ 2 * (esp32Status'.fps * (now - lastFpsCheck) - framesSinceLastCheck * 1000)
            > -(now - lastFpsCheck)
       /\ (framesSinceLastCheck = 15 /\ now - lastFpsCheck = 1000)
            => esp32Status'.fps = 15
       /\ framesSinceLastCheck' = 0
  /\ (lastOp'.op = "frame" /\ response'.status = 200) =>
       framesSinceLastCheck' = framesSinceLastCheck + 1

Throughput == [][ThroughputStep]_vars

\* C9 witness: a tick computed 15 frames per second and reset the counter.
FifteenFramesPerSecond ==
  /\ lastOp.op = "fpsTick"
  /\ esp32Status.fps = 15
  /\ framesSinceLastCheck = 0
  /\ frameCount = 15

\* C10: when the hub handles the car's acknowledgment of "left", the recorded
\* acknowledgment status is the status the car sent ("executed") and one
\* car_ack envelope with command "left" and that status is written to every
\* viewer of the viewer set, and to nobody else.
AckCorrelation ==
  (lastOp.op = "onCarAck" /\ lastOp.body.command = "left")
  => /\ carStatus.lastAckStatus = "executed"
     /\ out = {[to |-> v, msg |-> Msg("car_ack", "left", NoField, "executed", NoTime, "")]
                 : v \in webClients}

\* C10 witness: the acknowledgment of "left" was relayed to two viewers.
LeftAckRelayed ==
  /\ lastOp.op = "onCarAck"
  /\ lastOp.body.command = "left"
  /\ carStatus.lastCommand = "left"
  /\ Cardinality(webClients) >= 2
  /\ Cardinality(out) >= 2

\* C12 (as claimed): every step that changes the connected flag of the camera
\* status is a step of the liveness monitor; no frame receipt, command or
\* status request changes it.
MonitorSoleWriterStep ==
  esp32Status'.connected # esp32Status.connected
  => lastOp'.op \in {"sweep", "sweepNewlyStale", "sweepStillStale"}

MonitorSoleWriter == [][MonitorSoleWriterStep]_vars

\* The slots and the set a connection is registered in.
Registered(c) == c \in {esp32CarClient, esp32CameraClient} \cup webClients

\* C13: an assignRole of a Connection to an occupied camera or car slot
\* closes the previous occupant's transport and returns it as the evicted
\* connection; the new Connection is the only occupant, and the evicted one
\* is neither open nor findable by find(role) or in the viewer set.
EvictionStep ==
  \A r \in {"camera", "car"} :
    (lastOp'.op = "assignRole" /\ lastOp'.body.command = r /\ find(r) # Null)
    => /\ evicted' = find(r)
       /\ readyState[find(r)] = OPEN => readyState'[find(r)] = CLOSING
       /\ readyState'[find(r)] # OPEN
       /\ role'[find(r)] = "none"
       /\ find(r) \notin {esp32CarClient', esp32CameraClient'} \cup webClients'
       /\ (IF r = "car" THEN esp32CarClient' ELSE esp32CameraClient') = lastOp'.conn
       /\ {c \in Conns : role'[c] = r} = {lastOp'.conn}
       /\ readyState'[lastOp'.conn] = OPEN

EvictionOnReassign == [][EvictionStep]_vars

\* C13 witness: the previous occupant of a slot was returned as evicted and
\* its transport is closing, while the new occupant is open.
PreviousOccupantClosed ==
  /\ lastOp.op = "assignRole"
  /\ lastOp.body.command \in {"camera", "car"}
  /\ evicted # Null
  /\ retired[evicted] = lastOp.body.command
  /\ readyState[evicted] = CLOSING
  /\ find(lastOp.body.command) = lastOp.conn
  /\ readyState[lastOp.conn] = OPEN

\* C14: an assignRole with role viewer adds the Connection to the viewer set
\* and evicts nobody: every viewer there was is still a viewer, no transport
\* is closed, and the camera and car slots are unchanged.
ViewerJoinStep ==
  (lastOp'.op = "assignRole" /\ lastOp'.body.command = "viewer")
  => /\ webClients' = webClients \cup {lastOp'.conn}
     /\ evicted' = Null
     /\ UNCHANGED <<clientVars, firmware, capturing>>
     /\ retired' = retired
     /\ readyState' = readyState
     /\ \A c \in Conns \ {lastOp'.conn} : role'[c] = role[c]
     /\ esp32CarClient' = esp32CarClient
     /\ esp32CameraClient' = esp32CameraClient

ViewerJoin == [][ViewerJoinStep]_vars

\* C14 witness: a viewer joined while another viewer and a car were
\* registered.
ViewerJoinedOthers ==
  /\ lastOp.op = "assignRole"
  /\ lastOp.body.command = "viewer"
  /\ Cardinality(webClients) >= 2
  /\ esp32CarClient # Null
  /\ lastOp.conn \in webClients
  /\ \A c \in webClients : readyState[c] = OPEN

\* C15: the release of a close event removes the closing Connection from
\* whichever slot or set it occupies and nothing else; when the Connection is
\* registered nowhere (it was evicted or released before), the registry is
\* left unchanged, so a Connection that took the slot since then stays.
ReleaseStep ==
  lastOp'.op = "onClose"
  => /\ esp32CarClient' = IF esp32CarClient = lastOp'.conn THEN Null ELSE esp32CarClient
     /\ esp32CameraClient' =
          IF esp32CameraClient = lastOp'.conn THEN Null ELSE esp32CameraClient
     /\ webClients' = webClients \ {lastOp'.conn}
     /\ \A c \in Conns : role'[c] = IF c = lastOp'.conn THEN "none" ELSE role[c]
     /\ ~Registered(lastOp'.conn)
          => <<esp32CarClient, esp32CameraClient, webClients, role>>'
               = <<esp32CarClient, esp32CameraClient, webClients, role>>

ReleaseIdempotent == [][ReleaseStep]_vars

\* C15 witness: the close event of an evicted Connection was handled after
\* another Connection took its slot, and that Connection still holds it.
StaleCloseAfterReplacement ==
  /\ lastOp.op = "onClose"
  /\ retired[lastOp.conn] \in {"camera", "car"}
  /\ find(retired[lastOp.conn]) \notin {Null, lastOp.conn}
  /\ readyState[find(retired[lastOp.conn])] = OPEN
  /\ role[find(retired[lastOp.conn])] = retired[lastOp.conn]

\* A transport that was accepted and has not identified itself.
AwaitingHandshake(c) == readyState[c] = OPEN /\ role[c] = "none"

\* C16: a first message that does not parse closes the connection with
\* HandshakeError and registers nothing; in every state a connection without
\* a role is in no slot and not in the viewer set, and a closed connection
\* without a role never gets one.
HandshakeFailureStep ==
  /\ \A c \in Conns :
       role'[c] = "none"
       => c \notin {esp32CarClient', esp32CameraClient'} \cup webClients'
  /\ \A c \in Conns :
       (readyState[c] # OPEN /\ role[c] = "none" /\ readyState'[c] # OPEN)
       => role'[c] = "none"
  /\ (lastOp'.op = "handshake" /\ lastOp'.body.command = Unparseable)
     => /\ response'.error = "HandshakeError"
        /\ readyState'[lastOp'.conn] = CLOSING
        /\ role'[lastOp'.conn] = "none"
        /\ out' = {}
        /\ <<esp32CarClient, esp32CameraClient, webClients, role>>'
             = <<esp32CarClient, esp32CameraClient, webClients, role>>

HandshakeTimeoutStep ==
  lastOp'.op = "handshakeTimeout"
  => /\ AwaitingHandshake(lastOp'.conn)
     /\ now >= deadline[lastOp'.conn]
     /\ response'.error = "HandshakeTimeout"
     /\ readyState'[lastOp'.conn] = CLOSING
     /\ role'[lastOp'.conn] = "none"
     /\ lastOp'.conn \notin {esp32CarClient', esp32CameraClient'} \cup webClients'

HandshakeBounded ==
  /\ [][HandshakeTimeoutStep]_vars
  /\ \A c \in HandshakePeers : AwaitingHandshake(c) ~> ~AwaitingHandshake(c)

\* C17 witness: a silent transport was closed with HandshakeTimeout ten
\* seconds after it was accepted.
SilentTransportClosed ==
  /\ lastOp.op = "handshakeTimeout"
  /\ response.error = "HandshakeTimeout"
  /\ now >= HandshakeTimeout
  /\ readyState[lastOp.conn] = CLOSING
  /\ role[lastOp.conn] = "none"

\* C18: every write of a submit goes to the Connection that holds the car
\* slot at the time of the submit, which is open and registered as the car;
\* no submit writes to a Connection that was evicted from a slot.
CommandsToOccupantOnly ==
  lastOp.op = "control"
  => \A w \in out : /\ w.to = esp32CarClient
                     /\ role[w.to] = "car"
                     /\ readyState[w.to] = OPEN
                     /\ retired[w.to] = "none"

\* C18 witness: a command was written to the car that replaced an evicted
\* car, while the evicted connection had not been re-accepted.
SubmitAfterReplacement ==
  /\ lastOp.op = "control"
  /\ response.status = 200
  /\ Cardinality(out) = 1
  /\ \A w \in out : w.to = esp32CarClient
  /\ \E c \in Conns : retired[c] = "car" /\ c # esp32CarClient

\* C19: the fan-out of the n-th frame of the camera writes that frame and no
\* other to every socket it writes to, after the fan-outs of the frames before
\* it: on every connection the frames arrive with increasing sequence
\* numbers, and a connection that gets no write misses the frame.
FrameOrderStep ==
  (lastOp'.op = "frame" /\ response'.status = 200)
  => /\ frameCount' = frameCount + 1
     /\ \A w \in out' : /\ w.msg.type = "frame"
                         /\ Base64Decode(w.msg.image) = frameCount'
                         /\ Base64Decode(w.msg.image) > latestFrame
     /\ latestFrame' = frameCount'
     /\ \A c \in Conns : Cardinality({w \in out' : w.to = c}) <= 1

LatestReturnsMostRecent ==
  lastOp.op = "snapshot"
  => /\ (response.frame = NoFrame) <=> (frameCount = 0)
     /\ response.status = IF frameCount = 0 THEN 404 ELSE 200
     /\ frameCount > 0 => /\ response.frame = received[frameCount]
                          /\ response.frame \in Payloads

\* C20 witness: a snapshot returned the bytes of the only frame received.
SnapshotOfOnlyFrame ==
  /\ lastOp.op = "snapshot"
  /\ response.status = 200
  /\ frameCount = 1
  /\ response.frame = received[1]

\* C21: the sequence number of the frame cache never decreases; every
\* accepted frame increases it by exactly one and puts that frame's bytes in
\* the cache; no other operation (rejected frame, snapshot, capture, submit,
\* liveness sweep, throughput tick, passage of time, socket registration)
\* changes the cached bytes or the sequence number.
FrameCacheStep ==
  /\ frameCount' >= frameCount
  /\ IF lastOp'.op = "frame" /\ response'.status = 200
     THEN /\ frameCount' = frameCount + 1
          /\ latestFrame' = received'[Len(received')]
          /\ Len(received') = Len(received) + 1
     ELSE <<latestFrame, frameCount>>' = <<latestFrame, frameCount>>

FrameCacheMonotonic == [][FrameCacheStep]_vars

\* C21 witness: a capture ran after the second frame and after a command was
\* sent to the car, and the cache still holds the second frame.
CaptureLeavesCache ==
  /\ lastOp.op = "capture"
  /\ response.status = 200
  /\ frameCount = 2
  /\ latestFrame = received[2]
  /\ response.frame = received[2]
  /\ carStatus.lastCommand = "stop"


\* C23 (as claimed): every error is converted into a structured error result
\* or a broadcast notification, and the hub goes on: a handshake error or
\* timeout answers with its error and closes only that transport; an invalid
\* command answers 400 and an unavailable car 503, with no write; a frame
\* whose write to one viewer fails is still cached and answered 200; and the
\* sweep that finds the camera newly stale writes a camera_disconnected
\* notification to every viewer.
ErrorsConverted ==
  /\ response.error \in {"HandshakeError", "HandshakeTimeout"}
       => readyState[lastOp.conn] = CLOSING /\ out = {}
  /\ (lastOp.op = "control" /\ InvalidCommand(lastOp.body.command))
       => response.status = 400 /\ response.error = "Invalid command" /\ out = {}
  /\ (lastOp.op = "control" /\ ~InvalidCommand(lastOp.body.command)
      /\ CarUnavailable)
       => response.status = 503 /\ response.error = "Car not connected" /\ out = {}
  /\ (lastOp.op = "frame" /\ lastOp.body.command = "image")
       => response.status = 200 /\ latestFrame # NoFrame
  /\ lastOp.op = "sweepNewlyStale"
       => /\ ~esp32Status.connected
          /\ out = Broadcast(webClients, Notice("camera_disconnected"))

\* C24: while the camera streams frames, an accepted submit puts its command
\* on the car's socket in the same step, no frame takes a message off the
\* car's socket or the hub's, and every command on the car's socket is
\* eventually executed by the car and its acknowledgment relayed to the
\* viewers, when the handlers are scheduled fairly.
StreamStep ==
  /\ (lastOp'.op = "control" /\ response'.status = 200)
       => /\ Len(carRx') = Len(carRx) + 1
          /\ carRx'[Len(carRx')].command = lastOp'.body.command
          /\ \E w \in out' : w.to = esp32CarClient
                              /\ w.msg.command = lastOp'.body.command
  /\ lastOp'.op = "frame" => /\ <<carRx, hubRx>>' = <<carRx, hubRx>>
                             /\ esp32CarClient' = esp32CarClient
                             /\ readyState' = readyState

RoleConnectedStep ==
  /\ \A r \in {"camera", "car"} :
       (lastOp'.op = "handshake" /\ lastOp'.body.command = "esp32_" \o r)
       => /\ out' = {[to |-> v, msg |-> Notice(r \o "_connected")] : v \in webClients}
          /\ webClients' = webClients
          /\ role'[lastOp'.conn] = r
          /\ (IF r = "car" THEN esp32CarClient' ELSE esp32CameraClient') = lastOp'.conn
          /\ readyState'[lastOp'.conn] = OPEN
  /\ \A w \in out' : \A r \in {"camera", "car"} :
       w.msg.type = r \o "_connected"
       => /\ lastOp'.op = "handshake"
          /\ lastOp'.body.command = "esp32_" \o r
          /\ role'[lastOp'.conn] = r
          /\ w.to \in webClients'

RoleConnectedNotice == [][RoleConnectedStep]_vars

\* C25 witness: a car completed its handshake while a viewer was registered,
\* and the viewer was sent car_connected.
CarAnnouncedToViewer ==
  /\ lastOp.op = "handshake"
  /\ lastOp.body.command = "esp32_car"
  /\ esp32CarClient = lastOp.conn
  /\ webClients # {}
  /\ out = {[to |-> v, msg |-> Notice("car_connected")] : v \in webClients}

\* C26: a fan-out iterates over the connections there are when it is called:
\* the handler runs to completion, so no viewer joins or leaves inside the
\* call, every viewer that is a member with an open transport gets exactly
\* one write of that frame, and no connection that was not open at the call
\* gets one.
FanOutSnapshotStep ==
  (lastOp'.op = "frame" /\ response'.status = 200)
  => /\ webClients' = webClients
     /\ readyState' = readyState
     /\ \A v \in webClients :
          readyState[v] = OPEN => Cardinality({w \in out' : w.to = v}) = 1
     /\ \A w \in out' : /\ readyState[w.to] = OPEN
                         /\ w.msg.type = "frame"
                         /\ Base64Decode(w.msg.image) = latestFrame'
     /\ Cardinality(out') = Cardinality({c \in Conns : readyState[c] = OPEN})

SendCommandResult ==
  call.op = "sendCommand"
  => /\ (call.returned = "true") <=> (call.sent # {})
     /\ call.returned \in {"true", "false"}
     /\ call.returned = "true"
          => /\ socket # Null
             /\ wsReadyState[socket] = OPEN
             /\ Cardinality(call.sent) = 1
             /\ \A m \in call.sent : m.to = socket
             /\ call.emitted = <<>>
     /\ (socket = Null \/ wsReadyState[socket] # OPEN)
          => /\ call.returned = "false"
             /\ call.emitted = <<"error">>
             /\ call.sent = {}

\* C27 witness: a command was refused while the socket was still connecting.
SendRefusedWhileConnecting ==
  /\ call.op = "sendCommand"
  /\ socket # Null
  /\ wsReadyState[socket] = CONNECTING
  /\ call.returned = "false"
  /\ call.emitted = <<"error">>
  /\ call.sent = {}

\* C28: reconnectAttempts never exceeds maxReconnectAttempts; a close event
\* with a code other than 1000 counts one attempt and arms the reconnection
\* timer while the limit is not reached, and at the limit emits an error and
\* leaves the counter and the timer as they are; a close event with code
\* 1000 schedules nothing; an open event sets the counter to 0.
ReconnectStep ==
  /\ reconnectAttempts' <= maxReconnectAttempts
  /\ reconnectAttempts' >= 0
  /\ (call'.op = "close" /\ call'.code # NormalClosure)
       => IF reconnectAttempts < maxReconnectAttempts
          THEN /\ reconnectAttempts' = reconnectAttempts + 1
               /\ reconnectTimeout' = "armed"
               /\ call'.emitted = <<"connected(false)">>
          ELSE /\ reconnectAttempts' = reconnectAttempts
               /\ reconnectTimeout' = reconnectTimeout
               /\ call'.emitted = <<"connected(false)", "error">>
  /\ (call'.op = "close" /\ call'.code = NormalClosure)
       => <<reconnectAttempts, reconnectTimeout>>'
            = <<reconnectAttempts, reconnectTimeout>>
  /\ call'.op = "open" => reconnectAttempts' = 0 /\ reconnectTimeout' = "null"

ReconnectBounded == [][ReconnectStep]_vars

\* C28 witness: the close event of the fifth reconnection attempt found the
\* limit reached, emitted the error and left no timer armed.
ReconnectLimitReached ==
  /\ call.op = "close"
  /\ call.code # NormalClosure
  /\ reconnectAttempts = maxReconnectAttempts
  /\ call.emitted = <<"connected(false)", "error">>
  /\ reconnectTimeout = "fired"

\* C29 (as claimed): after disconnect(), whatever the state it was called in,
\* no step constructs a new WebSocket until connect() is called again.
NoReconnectStep == (disconnected /\ call'.op # "connect") => ~call'.created

NoReconnectAfterDisconnect == [][NoReconnectStep]_vars

\* C30 (as claimed): the car writes {type: "ack", command, status: "executed"}
\* exactly when it has executed a command in {forward, backward, left, right,
\* stop}; an unknown command, a message without a command and an incoming
\* ack or car_ack message produce no acknowledgment.
AckProtocolStep ==
  (carRx # <<>> /\ lastOp'.op = "handleCommand")
    => LET doc == Head(carRx)
       IN IF doc.type \notin {"ack", "car_ack"} /\ doc.command \in validCommands
          THEN /\ motion' = doc.command
               /\ hubRx' = Append(hubRx, Msg("ack", doc.command, NoField,
                                             "executed", NoTime, ""))
          ELSE hubRx' = hubRx

AckProtocol == [][AckProtocolStep]_vars

\* C31 (as claimed): the client service has at most one live socket (one
\* that is connecting or open), and the close event of a socket that another
\* socket has superseded schedules no reconnection: it leaves the attempts
\* and the timer as they are, and the new connection is not replaced.
LiveSockets == {s \in Sockets : wsReadyState[s] \in {CONNECTING, OPEN}}

OneLiveSocketStep ==
  /\ Cardinality(LiveSockets') <= 1
  /\ (call'.op = "close" /\ socket # Null /\ call'.socket # socket)
       => <<reconnectAttempts, reconnectTimeout>>'
            = <<reconnectAttempts, reconnectTimeout>>

OneLiveSocket == [][OneLiveSocketStep]_vars

\* C32: a submit that is answered 400 Invalid command or 503 Car not
\* connected leaves the car status record (lastCommand, lastCommandTime,
\* lastAckStatus) as it was.
RejectedSubmitStep ==
  (lastOp'.op = "control" /\ response'.status \in {400, 503})
    => carStatus' = carStatus

RejectedSubmitChangesNothing == [][RejectedSubmitStep]_vars

\* C32 witness: "stop" was refused because the car had left, and the record
\* still names the command sent to the car before.
RefusedAfterForward ==
  /\ lastOp.op = "control"
  /\ lastOp.body.command = "stop"
  /\ response.status = 503
  /\ carStatus.lastCommand = "forward"
  /\ carStatus.lastCommandTime # NoTime

\* C33: a capture request uses the frame that was latest when it started:
\* the bytes saved, the bytes sent for prediction and the frame whose size is
\* reported are that one frame, and frames that arrive while the request
\* awaits the prediction service change none of them.
CaptureStep ==
  /\ (lastOp'.op = "captureBegin" /\ latestFrame # NoFrame)
       => /\ capturing'.latestFrame = latestFrame
          /\ capturing'.sent = latestFrame
          /\ capturing'.saved \in {latestFrame, NoFrame}
  /\ (capturing.active /\ lastOp'.op = "frame")
       => capturing' = capturing
  /\ (capturing.active /\ lastOp'.op = "capture")
       => /\ response'.status = 200
          /\ response'.frame = capturing.latestFrame
          /\ capturing'.sent = response'.frame
          /\ capturing'.saved \in {response'.frame, NoFrame}

CaptureConsistent == [][CaptureStep]_vars

\* C33 witness: a capture was answered after another frame had replaced the
\* one it started with; the frame saved, sent and sized is the earlier one.
CaptureAcrossFrame ==
  /\ lastOp.op = "capture"
  /\ ~capturing.active
  /\ response.status = 200
  /\ response.frame # latestFrame
  /\ capturing.saved = response.frame
  /\ capturing.sent = response.frame

\* C34: a frame submission from which the entry point extracts no Buffer is
\* answered 400 Invalid frame data, leaves the cached frame, the frame
\* count, the throughput window counter and the camera status as they were,
\* and writes to no viewer.
InvalidFrameStep ==
  (lastOp'.op = "frame" /\ lastOp'.body.command = "invalid")
    => /\ response'.status = 400
       /\ response'.error = "Invalid frame data"
       /\ <<latestFrame, frameCount, framesSinceLastCheck, esp32Status>>'
            = <<latestFrame, frameCount, framesSinceLastCheck, esp32Status>>
       /\ out' = {}

SweepStep ==
  lastOp'.op \in {"sweep", "sweepNewlyStale", "sweepStillStale"}
    => IF esp32Status.lastUpdate # NoTime
          /\ now - esp32Status.lastUpdate > StaleAfter
       THEN esp32Status' = [esp32Status EXCEPT !.connected = FALSE, !.fps = 0]
       ELSE esp32Status' = esp32Status

SweepNoFalsePositive == [][SweepStep]_vars

\* C35 witness: the timer ran when the last frame was exactly 5000 ms old
\* and the camera is still reported connected.
SweepAtThreshold ==
  /\ lastOp.op = "sweep"
  /\ esp32Status.lastUpdate # NoTime
  /\ now - esp32Status.lastUpdate = StaleAfter
  /\ esp32Status.connected

\* C36: when frames stop arriving the camera status becomes connected =
\* false with fps = 0, by the run of the monitor timer that follows the
\* 5000 ms threshold (one sweep period after it, and as late as the timer
\* runs); it stays so while no frame arrives, and an accepted frame makes it
\* connected = true again.
FrameAccepted == lastOp.op = "frame" /\ response.status = 200

ReportedSilent == ~esp32Status.connected /\ esp32Status.fps = 0

RecoveryStep ==
  /\ FrameAccepted' => esp32Status'.connected
  /\ (ReportedSilent /\ ~FrameAccepted') => ReportedSilent'

SilenceBound ==
  (esp32Status.lastUpdate # NoTime
   /\ now - esp32Status.lastUpdate > StaleAfter + MonitorPeriod + MaxLate)
    => ReportedSilent

CarStatusStep ==
  lastOp'.op = "carStatus"
    => /\ response'.status = 200
       /\ (response'.car[1] = "true")
            <=> (esp32CarClient # Null /\ readyState[esp32CarClient] = OPEN)
       /\ response'.car[2] = carStatus
       /\ UNCHANGED <<ctlVars, firmware, capturing, broken, camVars, now,
                      connVars, clientVars>>

CarStatusFromSocket == [][CarStatusStep]_vars

\* C37 witness: the stored flag said connected, the socket in the car slot
\* was closing, and the endpoint reported not connected together with the
\* last command of the record.
StoredFlagOverridden ==
  /\ lastOp.op = "carStatus"
  /\ lastOp.body.command = "true"
  /\ esp32CarClient # Null
  /\ readyState[esp32CarClient] = CLOSING
  /\ response.car[1] = "false"
  /\ response.car[2].lastCommand = "stop"

====
